---- MODULE Spec2Model ----
(***************************************************************************)
(* A model of main.py, the downloader bot: the candidate filter/ranker     *)
(* (build_youtube_choice_list, choose_best_under_limit_non_reencode), the  *)
(* session store PENDING, the two event handlers handle_link and           *)
(* on_callback, and the delivery pipeline send_downloaded_video.           *)
(*                                                                         *)
(* The specifications of the module: SpecFilter feeds bounded format lists *)
(* to the two pure ranking functions.  SpecDelivery runs                   *)
(* send_downloaded_video coroutines, one action per stretch of code        *)
(* between two awaits.  Spec runs the handlers as coroutines around the    *)
(* session store, interleaved at their awaits; there                       *)
(* send_downloaded_video, which reads and writes nothing the handlers      *)
(* share, is a single await with its results.  SpecSequential is Spec with *)
(* one update handled at a time, the way the Application of build_app      *)
(* dispatches.  SpecPrompt runs handle_link on videos of more resolutions  *)
(* than a prompt has buttons.                                              *)
(***************************************************************************)
EXTENDS Integers, Sequences, FiniteSets, TLC

VARIABLES
    formats,      \* SpecFilter: info["formats"], the list handed to the ranker
    phase,        \* SpecFilter: "build" | "manual" | "auto"
    manualList,   \* SpecFilter: what build_youtube_choice_list returned
    autoPick,     \* SpecFilter: what choose_best_under_limit_non_reencode returned
    PENDING,      \* Spec: the session store, (chat_id, user_id) -> PendingChoice or None
    task,         \* Spec: the handler coroutines, one record per dispatched update
    deliv,        \* SpecDelivery: the send_downloaded_video coroutines
    tmpdirs       \* SpecDelivery: the temporary directories on disk

filterVars == <<formats, phase, manualList, autoPick>>
botVars == <<PENDING, task>>
deliveryVars == <<deliv, tmpdirs>>
vars == <<formats, phase, manualList, autoPick, PENDING, task, deliv, tmpdirs>>

----------------------------------------------------------------------------
(* Values *)

\* Python's None for an optional integer (a missing filesize, a missing height).
None == -1

\* MAX_BYTES = MAX_MB * 1024 * 1024, scaled: the sizes of the model are small
\* integers, and 2 plays the part of the ceiling.
MAX_BYTES == 2

\* 10**18, the stand-in size of a format of unknown size, scaled: larger than
\* every size of the model.
UNKNOWN_SIZE == 1000

\* The longest format list handed to the ranker.
MaxFormats == 3

Sizes == {0, 1, 2, 3}

\* A format record of yt-dlp, the fields the program reads.
Fmt(id, ext, vc, ac, h, fs, fsa) ==
    [format_id |-> id, ext |-> ext, vcodec |-> vc, acodec |-> ac,
     height |-> h, filesize |-> fs, filesize_approx |-> fsa]

\* Formats without their format_id: every height and size of an mp4 with both
\* tracks, the three ways of failing the container/track test at the top
\* height with an attractive size, and sizes known only approximately.
FormatShapes ==
    { <<"mp4", "avc1", "mp4a", h, fs, None>> : h \in {0, 1, 2}, fs \in Sizes \cup {None} }
    \cup { <<"mp4", "avc1", "mp4a", None, 1, None>> }
    \cup { <<"webm", "avc1", "mp4a", 2, 1, None>>,
           <<"mp4", "none", "mp4a", 2, 1, None>>,
           <<"mp4", "avc1", "none", 2, 1, None>> }
    \cup { <<"mp4", "avc1", "mp4a", 2, None, fsa>> : fsa \in {1, 3} }

----------------------------------------------------------------------------
(* The candidate filter/ranker *)

\* fmt.get("filesize"), else fmt.get("filesize_approx")
_format_filesize(fmt) ==
    IF fmt.filesize = None THEN fmt.filesize_approx ELSE fmt.filesize

\* Python's `x or d` on an optional integer: None and 0 are both falsy.
OrElse(x, d) == IF x = None \/ x = 0 THEN d ELSE x

\* Eligible without its third test: the size is never held against the ceiling.
Eligible_NoCeiling(f) ==
    /\ f.ext = "mp4"
    /\ ~(f.vcodec = "none" \/ f.acodec = "none")

\* The three `continue`s both rankers open their loop with.
Eligible(f) ==
    /\ f.ext = "mp4"
    /\ ~(f.vcodec = "none" \/ f.acodec = "none")
    /\ LET fs == _format_filesize(f) IN ~(fs # None /\ fs > MAX_BYTES)

\* (height, fs or 10**18, f) of an eligible format
Candidate(f) ==
    [height |-> OrElse(f.height, 0), fs |-> OrElse(_format_filesize(f), UNKNOWN_SIZE), f |-> f]

RECURSIVE Candidates(_)
Candidates(fs) ==
    IF fs = <<>> THEN <<>>
    ELSE LET rest == Candidates(Tail(fs)) IN
         IF Eligible(Head(fs)) THEN <<Candidate(Head(fs))>> \o rest ELSE rest

\* Python's tuple order on the sort key (x[0], x[1])
KeyLess(a, b) == a.height < b.height \/ (a.height = b.height /\ a.fs < b.fs)

\* list.sort is stable: an element goes after those of an equal key.
RECURSIVE InsertSorted(_, _)
InsertSorted(c, s) ==
    IF s = <<>> THEN <<c>>
    ELSE IF KeyLess(c, Head(s)) THEN <<c>> \o s
    ELSE <<Head(s)>> \o InsertSorted(c, Tail(s))

RECURSIVE SortCandidates(_)
SortCandidates(s) ==
    IF s = <<>> THEN <<>>
    ELSE InsertSorted(s[Len(s)], SortCandidates(SubSeq(s, 1, Len(s) - 1)))

\* The loop filling by_height: the first format of a height takes the slot, a
\* later one replaces it only if its size is strictly smaller.
RECURSIVE FillByHeight(_, _)
FillByHeight(cands, by_height) ==
    IF cands = <<>> THEN by_height
    ELSE LET c == Head(cands)
             h == c.height
         IN IF h <= 0 THEN FillByHeight(Tail(cands), by_height)
            ELSE IF h \notin DOMAIN by_height
                 THEN FillByHeight(Tail(cands), (h :> c.f) @@ by_height)
            ELSE LET old_fs == OrElse(_format_filesize(by_height[h]), UNKNOWN_SIZE)
                     new_fs == OrElse(_format_filesize(c.f), UNKNOWN_SIZE)
                 IN IF new_fs < old_fs
                    THEN FillByHeight(Tail(cands), (h :> c.f) @@ by_height)
                    ELSE FillByHeight(Tail(cands), by_height)

\* InHeightOrder with sorted(..., reverse=True)
RECURSIVE InHeightOrder_Descending(_, _)
InHeightOrder_Descending(by_height, keys) ==
    IF keys = {} THEN <<>>
    ELSE LET h == CHOOSE x \in keys : \A y \in keys : x >= y
         IN <<by_height[h]>> \o InHeightOrder_Descending(by_height, keys \ {h})

\* [by_height[h] for h in sorted(keys)]
RECURSIVE InHeightOrder(_, _)
InHeightOrder(by_height, keys) ==
    IF keys = {} THEN <<>>
    ELSE LET h == CHOOSE x \in keys : \A y \in keys : x <= y
         IN <<by_height[h]>> \o InHeightOrder(by_height, keys \ {h})

EmptyDict == [x \in {} |-> 0]

build_youtube_choice_list(fs) ==
    LET by_height == FillByHeight(SortCandidates(Candidates(fs)), EmptyDict)
    IN InHeightOrder(by_height, DOMAIN by_height)

\* Score with the sign of the size lost: score = (height, fs_score)
Score_PlusSize(f) ==
    LET fs == _format_filesize(f)
    IN <<OrElse(f.height, 0), IF fs # None THEN fs ELSE UNKNOWN_SIZE>>

\* score = (height, -fs_score), where only None counts as unknown
Score(f) ==
    LET fs == _format_filesize(f)
    IN <<OrElse(f.height, 0), -(IF fs # None THEN fs ELSE UNKNOWN_SIZE)>>

\* Python's tuple comparison score > best_score
ScoreGreater(a, b) == a[1] > b[1] \/ (a[1] = b[1] /\ a[2] > b[2])

\* The loop of choose_best_under_limit_non_reencode over the rest of the list,
\* from the best format so far (NoFormat for Python's None) and its score.
NoFormat == Fmt(0, "", "", "", None, None, None)

RECURSIVE BestFrom(_, _, _)
BestFrom(fs, best, best_score) ==
    IF fs = <<>> THEN best
    ELSE LET f == Head(fs) IN
         IF Eligible(f) /\ ScoreGreater(Score(f), best_score)
         THEN BestFrom(Tail(fs), f, Score(f))
         ELSE BestFrom(Tail(fs), best, best_score)

choose_best_under_limit_non_reencode(fs) == BestFrom(fs, NoFormat, <<-1, -1>>)

----------------------------------------------------------------------------
(* SpecFilter: the ranker on every format list of up to MaxFormats formats *)

InitBot ==
    /\ PENDING = EmptyDict
    /\ task = <<>>

InitDelivery ==
    /\ deliv = <<>>
    /\ tmpdirs = {}

InitRanker ==
    /\ formats = <<>>
    /\ phase = "build"
    /\ manualList = <<>>
    /\ autoPick = NoFormat

InitFilter == InitRanker /\ InitBot /\ InitDelivery

\* The extractor reports one more format; its format_id is its place in the list.
AddFormat ==
    /\ phase = "build"
    /\ Len(formats) < MaxFormats
    /\ \E s \in FormatShapes :
         formats' = Append(formats, Fmt(Len(formats) + 1, s[1], s[2], s[3], s[4], s[5], s[6]))
    /\ UNCHANGED <<phase, manualList, autoPick>>
    /\ UNCHANGED <<botVars, deliveryVars>>

ApplyManual ==
    /\ phase = "build"
    /\ manualList' = build_youtube_choice_list(formats)
    /\ phase' = "manual"
    /\ UNCHANGED <<formats, autoPick>>
    /\ UNCHANGED <<botVars, deliveryVars>>

ApplyAuto ==
    /\ phase = "build"
    /\ autoPick' = choose_best_under_limit_non_reencode(formats)
    /\ phase' = "auto"
    /\ UNCHANGED <<formats, manualList>>
    /\ UNCHANGED <<botVars, deliveryVars>>

NextFilter == AddFormat \/ ApplyManual \/ ApplyAuto

SpecFilter == InitFilter /\ [][NextFilter]_vars

----------------------------------------------------------------------------
(* The bot: updates, the session store, the handlers *)

\* How many updates (messages and button taps) arrive in a run.
MaxTasks == 3

\* fmts[:12], the most buttons of a prompt
MAX_BUTTONS == 12

\* (chat_id, user_id): two members of one group chat
Keys == { <<1, 1>>, <<1, 2>> }

\* A URL, by what the program reads of it: the host signatures its lowercased
\* text contains, and the video it names.
Url(sigs, vid) == [sigs |-> sigs, vid |-> vid]

\* A message text URL_RE does not match
NoUrlText == Url({}, "")

Urls ==
    { Url({"youtube.com"}, "a"), Url({"youtu.be"}, "b"), Url({"youtube.com"}, "c"),
      Url({"tiktok.com"}, "a"), Url({"instagram.com"}, "c"), Url({}, "a") }

Texts == Urls \cup {NoUrlText}

\* detect_platform taking a TikTok link for a YouTube one
detect_platform_TikTokAsYoutube(url) ==
    IF "youtube.com" \in url.sigs \/ "youtu.be" \in url.sigs \/ "tiktok.com" \in url.sigs
    THEN "youtube"
    ELSE IF "instagram.com" \in url.sigs THEN "instagram"
    ELSE "unknown"

detect_platform(url) ==
    IF "youtube.com" \in url.sigs \/ "youtu.be" \in url.sigs THEN "youtube"
    ELSE IF "tiktok.com" \in url.sigs THEN "tiktok"
    ELSE IF "instagram.com" \in url.sigs THEN "instagram"
    ELSE "unknown"

\* What the extractor reports for a video: "a" has three mp4 formats, the
\* highest over the ceiling; "b" has one of unknown size; "c" has none that
\* can be sent; "live" has the formats of the variable formats.
Catalogue(vid) ==
    CASE vid = "a" -> << Fmt(11, "mp4", "avc1", "mp4a", 1, 1, None),
                         Fmt(12, "mp4", "avc1", "mp4a", 2, 2, None),
                         Fmt(13, "mp4", "avc1", "mp4a", 3, 3, None) >>
      [] vid = "b" -> << Fmt(21, "mp4", "avc1", "mp4a", 2, None, None) >>
      [] vid = "live" -> formats
      [] OTHER     -> << Fmt(31, "webm", "vp9", "opus", 2, 1, None),
                         Fmt(32, "mp4", "avc1", "none", 2, 1, None) >>

\* extract_info raises
ExtractError == [title |-> "", formats |-> <<>>, failed |-> TRUE]

\* extract_info(url): the info dict, or an exception
ExtractResults(url) ==
    { ExtractError, [title |-> url.vid, formats |-> Catalogue(url.vid), failed |-> FALSE] }

\* f"f{i}"
_make_token(i) == <<"f", i>>

\* The fmt_map of a prompt: token of idx -> fmts[idx], over fmts[:12]
FmtMap(fmts) ==
    [ tok \in { _make_token(i) : i \in 0..(Len(fmts) - 1) } |-> fmts[tok[2] + 1] ]

\* FirstButtons for `enumerate(fmts)`, the cap left out
FirstButtons_NoCap(fmts) == fmts

\* fmts[:12]
FirstButtons(fmts) ==
    SubSeq(fmts, 1, IF Len(fmts) < MAX_BUTTONS THEN Len(fmts) ELSE MAX_BUTTONS)

\* PendingChoice(url, extractor, formats); oid is the identity of the object.
PendingChoice(url, fmt_map, oid) ==
    [url |-> url, extractor |-> "youtube", formats |-> fmt_map, oid |-> oid]

\* StorePut as PENDING.setdefault(key, choice): an entry already there stays.
StorePut_IfAbsent(store, key, choice) ==
    [ k \in DOMAIN store \cup {key} |-> IF k \in DOMAIN store THEN store[k] ELSE choice ]

\* StorePop with the pop forgotten
StorePop_Forgotten(store, key) == store

\* PENDING[key] = choice, without a look at what is there
StorePut(store, key, choice) ==
    [ k \in DOMAIN store \cup {key} |-> IF k = key THEN choice ELSE store[k] ]

\* PENDING.pop(key, None): the store afterwards
StorePop(store, key) == [ k \in DOMAIN store \ {key} |-> store[k] ]

\* The object identity of what PENDING.get / PENDING.pop returns: 0 for None
StoredOid(store, key) == IF key \in DOMAIN store THEN store[key].oid ELSE 0

\* A coroutine of a handler.  kind and key say which handler runs for whom;
\* text is the message (handle_link); data and msg are the callback data and
\* the prompt message the tapped button sits on (on_callback); pc is the await
\* the coroutine is suspended at; reply is the last text the handler sent;
\* fmts are the formats a prompt shows; url and format_id are what it hands to
\* send_downloaded_video; took is the identity of the PendingChoice its pop
\* returned.
NewTask(kind, key, text, data, msg) ==
    [kind |-> kind, key |-> key, text |-> text, data |-> data, msg |-> msg,
     pc |-> "start", reply |-> "", fmts |-> <<>>, url |-> NoUrlText,
     format_id |-> 0, took |-> 0]

\* A handler that has returned: its frame is gone, and what stays is what it
\* sent to the chat and, of a button tap, who tapped.
Returned(me, reply) ==
    [NewTask(me.kind, IF me.kind = "callback" THEN me.key ELSE <<0, 0>>, NoUrlText, <<>>, 0)
       EXCEPT !.pc = "done", !.reply = reply]

\* send_downloaded_video has returned: what stays is what was asked of it,
\* from which PendingChoice, and how it ended.
Delivered(me, result) ==
    [Returned(me, result) EXCEPT !.url = me.url, !.format_id = me.format_id,
                                 !.took = me.took]

Tasks == 1..Len(task)

Set(t, r) == task' = [task EXCEPT ![t] = r]

Init == InitBot /\ InitRanker /\ InitDelivery

\* A text message arrives and handle_link runs to its first await that
\* matters: it returns at once on a text without URL, replies and returns on
\* an unknown platform, and otherwise awaits extract_info in a thread.
HandleLinkOn(texts) ==
    /\ Len(task) < MaxTasks
    /\ \E key \in Keys, text \in texts :
         LET new == NewTask("link", key, text, <<>>, 0)
             platform == detect_platform(text)
         IN task' = Append(task,
              IF text = NoUrlText THEN Returned(new, "")
              ELSE IF platform = "unknown" THEN Returned(new, "unknown_link")
              ELSE [new EXCEPT !.pc = "extract", !.url = text])
    /\ UNCHANGED PENDING
    /\ UNCHANGED <<filterVars, deliveryVars>>

HandleLinkStart == HandleLinkOn(Texts)

\* extract_info returns or raises, and handle_link runs on: the error reply;
\* for YouTube the choice list, the put and the prompt; for the others the
\* automatic pick and the call of send_downloaded_video, which is handed the
\* chat, the URL and the format_id.
HandleLinkExtracted(t) ==
    /\ task[t].kind = "link"
    /\ task[t].pc = "extract"
    /\ \E info \in ExtractResults(task[t].url) :
         LET me == task[t]
             platform == detect_platform(me.url)
             fmts == build_youtube_choice_list(info.formats)
             shown == FirstButtons(fmts)
             best == choose_best_under_limit_non_reencode(info.formats)
         IN IF info.failed
            THEN /\ Set(t, Returned(me, "extract_error"))
                 /\ UNCHANGED PENDING
            ELSE IF platform = "youtube"
            THEN IF fmts = <<>>
                 THEN /\ Set(t, Returned(me, "no_format"))
                      /\ UNCHANGED PENDING
                 ELSE /\ PENDING' = StorePut(PENDING, me.key,
                                             PendingChoice(me.url, FmtMap(shown), t))
                      /\ Set(t, [me EXCEPT !.pc = "done", !.reply = "prompt",
                                           !.fmts = shown])
            ELSE IF best = NoFormat
                 THEN /\ Set(t, Returned(me, "no_format"))
                      /\ UNCHANGED PENDING
                 ELSE /\ Set(t, [me EXCEPT !.pc = "deliver", !.format_id = best.format_id,
                                           !.key = <<me.key[1], 0>>, !.text = NoUrlText])
                      /\ UNCHANGED PENDING
    /\ UNCHANGED <<filterVars, deliveryVars>>

\* The prompts on screen: the link tasks that sent one
Prompts == { p \in Tasks : task[p].reply = "prompt" }

\* The callback data of the buttons of prompt p
ButtonData(p) ==
    { <<"YT", _make_token(i)>> : i \in 0..(Len(task[p].fmts) - 1) } \cup { <<"CANCEL">> }

\* A member of the chat taps a button of a prompt; on_callback runs up to
\* its await of q.answer().
OnCallbackStart ==
    /\ Len(task) < MaxTasks
    /\ \E p \in Prompts, key \in Keys :
         \E data \in ButtonData(p) :
            /\ key[1] = task[p].key[1]
            /\ task' = Append(task, [NewTask("callback", key, NoUrlText, data, p)
                                       EXCEPT !.pc = "answer"])
    /\ UNCHANGED PENDING
    /\ UNCHANGED <<filterVars, deliveryVars>>

\* Cancel answering a missing session the way the select branch does
Cancel_NotFound(store, key) ==
    IF key \in DOMAIN store
    THEN [store |-> StorePop(store, key), reply |-> "cancelled"]
    ELSE [store |-> store, reply |-> "session_not_found"]

\* Cancel for a store keyed by the chat alone
Cancel_WholeChat(store, key) ==
    [store |-> [ k \in { j \in DOMAIN store : j[1] # key[1] } |-> store[k] ],
     reply |-> "cancelled"]

\* data == "CANCEL": the pop, whatever it finds, and the text sent
Cancel(store, key) == [store |-> StorePop(store, key), reply |-> "cancelled"]

\* Select with the texts of its two misses exchanged
Select_TextsSwapped(store, key, token) ==
    IF key \notin DOMAIN store
    THEN [store |-> store, reply |-> "format_not_found", hit |-> FALSE]
    ELSE IF token \notin DOMAIN store[key].formats
    THEN [store |-> store, reply |-> "session_not_found", hit |-> FALSE]
    ELSE [store |-> StorePop(store, key), reply |-> "downloading", hit |-> TRUE]

\* Select with the pop moved behind the await of send_downloaded_video
Select_PopAfterDelivery(store, key, token) ==
    IF key \notin DOMAIN store
    THEN [store |-> store, reply |-> "session_not_found", hit |-> FALSE]
    ELSE IF token \notin DOMAIN store[key].formats
    THEN [store |-> store, reply |-> "format_not_found", hit |-> FALSE]
    ELSE [store |-> store, reply |-> "downloading", hit |-> TRUE]

\* Select taking the PendingChoice at the lookup: PENDING.pop in place of
\* PENDING.get
Select_PopOnMiss(store, key, token) ==
    IF key \notin DOMAIN store
    THEN [store |-> store, reply |-> "session_not_found", hit |-> FALSE]
    ELSE IF token \notin DOMAIN store[key].formats
    THEN [store |-> StorePop(store, key), reply |-> "format_not_found", hit |-> FALSE]
    ELSE [store |-> StorePop(store, key), reply |-> "downloading", hit |-> TRUE]

\* data.startswith("YT|"): the get, the two misses and, on a hit, the pop;
\* the store afterwards, the text sent, and whether the delivery is called
Select(store, key, token) ==
    IF key \notin DOMAIN store
    THEN [store |-> store, reply |-> "session_not_found", hit |-> FALSE]
    ELSE IF token \notin DOMAIN store[key].formats
    THEN [store |-> store, reply |-> "format_not_found", hit |-> FALSE]
    ELSE [store |-> StorePop(store, key), reply |-> "downloading", hit |-> TRUE]

\* OnCancel removing the PendingChoice only when it is the one of the prompt
\* the tapped button sits on
OnCancel_OwnPromptOnly(t) ==
    /\ task[t].kind = "callback"
    /\ task[t].pc = "answer"
    /\ task[t].data = <<"CANCEL">>
    /\ LET mine == StoredOid(PENDING, task[t].key) = task[t].msg
           out == IF mine THEN Cancel(PENDING, task[t].key)
                          ELSE [store |-> PENDING, reply |-> "cancelled"]
       IN /\ PENDING' = out.store
          /\ Set(t, [Returned(task[t], out.reply)
                       EXCEPT !.took = IF mine THEN task[t].msg ELSE 0])
    /\ UNCHANGED <<filterVars, deliveryVars>>

\* q.answer() returns on a tap of the cancel button.
OnCancel(t) ==
    /\ task[t].kind = "callback"
    /\ task[t].pc = "answer"
    /\ task[t].data = <<"CANCEL">>
    /\ LET out == Cancel(PENDING, task[t].key) IN
         /\ PENDING' = out.store
         /\ Set(t, [Returned(task[t], out.reply)
                      EXCEPT !.took = StoredOid(PENDING, task[t].key)])
    /\ UNCHANGED <<filterVars, deliveryVars>>

\* q.answer() returns on a tap of a format button: the token is split off
\* the data and looked up, and on a hit send_downloaded_video is called with
\* the url and the format_id of the stored PendingChoice.
OnSelect(t) ==
    /\ task[t].kind = "callback"
    /\ task[t].pc = "answer"
    /\ task[t].data[1] = "YT"
    /\ LET me == task[t]
           token == me.data[2]
           out == Select(PENDING, me.key, token)
       IN /\ PENDING' = out.store
          /\ IF out.hit
             THEN Set(t, [me EXCEPT !.pc = "deliver", !.reply = out.reply,
                                    !.url = PENDING[me.key].url,
                                    !.format_id = PENDING[me.key].formats[token].format_id,
                                    !.took = StoredOid(PENDING, me.key)])
             ELSE Set(t, Returned(me, out.reply))
    /\ UNCHANGED <<filterVars, deliveryVars>>

\* How send_downloaded_video ends: the video sent, the "too large" text sent,
\* the error text sent by the except clause, or an exception of that last
\* send_message leaving the function.
DeliveryResults == {"video", "too_large", "error", "raised"}

\* SendDownloadedVideo putting the PendingChoice back when the delivery of a
\* tap did not send the video
SendDownloadedVideo_RestoreOnFailure(t) ==
    /\ task[t].pc = "deliver"
    /\ \E result \in DeliveryResults :
         /\ Set(t, Delivered(task[t], result))
         /\ IF result # "video" /\ task[t].kind = "callback"
            THEN PENDING' = StorePut(PENDING, task[t].key,
                                     PendingChoice(task[t].url,
                                                   FmtMap(task[task[t].took].fmts),
                                                   task[t].took))
            ELSE UNCHANGED PENDING
    /\ UNCHANGED <<filterVars, deliveryVars>>

\* The handler's await of send_downloaded_video(chat_id, url, format_id) ends.
SendDownloadedVideo(t) ==
    /\ task[t].pc = "deliver"
    /\ \E result \in DeliveryResults : Set(t, Delivered(task[t], result))
    /\ UNCHANGED PENDING
    /\ UNCHANGED <<filterVars, deliveryVars>>

Next ==
    \/ HandleLinkStart
    \/ OnCallbackStart
    \/ \E t \in Tasks : HandleLinkExtracted(t)
    \/ \E t \in Tasks : OnCancel(t)
    \/ \E t \in Tasks : OnSelect(t)
    \/ \E t \in Tasks : SendDownloadedVideo(t)

Spec == Init /\ [][Next]_vars

\* Every handler has returned.
Quiet == \A t \in Tasks : task[t].pc = "done"

\* The runs in which an update arrives only when the handlers of the earlier
\* ones have returned: the runs of Spec without any overlap of two handlers.
NextSequential ==
    \/ Quiet /\ HandleLinkStart
    \/ Quiet /\ OnCallbackStart
    \/ \E t \in Tasks : HandleLinkExtracted(t)
    \/ \E t \in Tasks : OnCancel(t)
    \/ \E t \in Tasks : OnSelect(t)
    \/ \E t \in Tasks : SendDownloadedVideo(t)

SpecSequential == Init /\ [][NextSequential]_vars

----------------------------------------------------------------------------
(* SpecPrompt: handle_link on videos of many resolutions *)

\* The most resolutions a video of SpecPrompt has.
MaxResolutions == 14

\* The formats of a video of n resolutions, highest first: one sendable mp4
\* per height, and with twin a second, larger one at the top height.
LongVideo(n, twin) ==
    [ i \in 1..n |-> Fmt(100 + i, "mp4", "avc1", "mp4a", n + 1 - i, 1, None) ]
    \o (IF twin /\ n > 0 THEN << Fmt(100, "mp4", "avc1", "mp4a", n, 2, None) >> ELSE <<>>)

\* The YouTube link of the video whose formats the variable formats holds
LiveUrl == Url({"youtube.com"}, "live")

InitPrompt ==
    /\ formats \in { LongVideo(n, twin) : n \in 0..MaxResolutions, twin \in BOOLEAN }
    /\ phase = "build"
    /\ manualList = <<>>
    /\ autoPick = NoFormat
    /\ InitBot
    /\ InitDelivery

NextPrompt ==
    \/ HandleLinkOn({LiveUrl})
    \/ \E t \in Tasks : HandleLinkExtracted(t)

SpecPrompt == InitPrompt /\ [][NextPrompt]_vars

----------------------------------------------------------------------------
(* SpecDelivery: send_downloaded_video, await by await *)

\* How many calls of send_downloaded_video a run makes.
MaxDeliveries == 2

\* The size on disk of a downloaded file: at the ceiling, and one over it.
DownloadSizes == { MAX_BYTES, MAX_BYTES + 1 }

\* The format_ids a caller passes: those of the catalogue's sendable formats
DeliveryFormats == { 11, 21 }

\* TooLarge holding the size against the ceiling in MB and a number of bytes
TooLarge_WrongUnit(size) == size > MAX_BYTES * 1024 * 1024

\* size > MAX_BYTES
TooLarge(size) == size > MAX_BYTES

\* tempfile.TemporaryDirectory(): a name no directory on disk has
FreshDir(dirs) == CHOOSE n \in 1..(Cardinality(dirs) + 1) : n \notin dirs

\* A coroutine of send_downloaded_video: its argument, the await it is
\* suspended at, its temporary directory (0: none), the size it read, the
\* transport calls it has made after the download, and how it ended.
NewDelivery(format_id) ==
    [format_id |-> format_id, pc |-> "chat_action", td |-> 0, size |-> None,
     calls |-> {}, result |-> ""]

Deliveries == 1..Len(deliv)

SetD(d, r) == deliv' = [deliv EXCEPT ![d] = r]

\* LeaveWith for a directory made with mkdtemp and never removed
LeaveWith_Kept(d) == UNCHANGED tmpdirs

\* Leaving the `with` block, by return or by exception, removes the directory.
LeaveWith(d) == tmpdirs' = tmpdirs \ {deliv[d].td}

\* A handler calls send_downloaded_video, which awaits send_chat_action.
DeliveryStart ==
    /\ Len(deliv) < MaxDeliveries
    /\ \E format_id \in DeliveryFormats : deliv' = Append(deliv, NewDelivery(format_id))
    /\ UNCHANGED tmpdirs
    /\ UNCHANGED <<filterVars, botVars>>

\* send_chat_action returns: the directory is made and the download awaited.
ChatActionSent(d) ==
    /\ deliv[d].pc = "chat_action"
    /\ LET td == FreshDir(tmpdirs) IN
         /\ tmpdirs' = tmpdirs \cup {td}
         /\ SetD(d, [deliv[d] EXCEPT !.pc = "download", !.td = td])
    /\ UNCHANGED <<filterVars, botVars>>

\* send_chat_action raises: the except clause awaits the error send_message.
ChatActionRaised(d) ==
    /\ deliv[d].pc = "chat_action"
    /\ SetD(d, [deliv[d] EXCEPT !.pc = "report_error"])
    /\ UNCHANGED tmpdirs
    /\ UNCHANGED <<filterVars, botVars>>

\* download_format returns a file: its size is read and held against the
\* ceiling, and the "too large" send_message or send_video is awaited.
DownloadReturned(d) ==
    /\ deliv[d].pc = "download"
    /\ \E size \in DownloadSizes :
         IF TooLarge(size)
         THEN SetD(d, [deliv[d] EXCEPT !.pc = "report_too_large", !.size = size,
                                       !.calls = @ \cup {"send_message_too_large"}])
         ELSE SetD(d, [deliv[d] EXCEPT !.pc = "upload", !.size = size,
                                       !.calls = @ \cup {"send_video"}])
    /\ UNCHANGED tmpdirs
    /\ UNCHANGED <<filterVars, botVars>>

\* download_format raises (yt-dlp failed, or no mp4 file was found).
DownloadRaised(d) ==
    /\ deliv[d].pc = "download"
    /\ LeaveWith(d)
    /\ SetD(d, [deliv[d] EXCEPT !.pc = "report_error", !.td = 0])
    /\ UNCHANGED <<filterVars, botVars>>

\* The "too large" send_message returns, and the function returns.
TooLargeSent(d) ==
    /\ deliv[d].pc = "report_too_large"
    /\ LeaveWith(d)
    /\ SetD(d, [deliv[d] EXCEPT !.pc = "done", !.td = 0, !.result = "too_large"])
    /\ UNCHANGED <<filterVars, botVars>>

\* send_video returns, and the function returns.
VideoSent(d) ==
    /\ deliv[d].pc = "upload"
    /\ LeaveWith(d)
    /\ SetD(d, [deliv[d] EXCEPT !.pc = "done", !.td = 0, !.result = "video"])
    /\ UNCHANGED <<filterVars, botVars>>

\* The "too large" send_message or send_video raises.
SendRaised(d) ==
    /\ deliv[d].pc \in {"report_too_large", "upload"}
    /\ LeaveWith(d)
    /\ SetD(d, [deliv[d] EXCEPT !.pc = "report_error", !.td = 0])
    /\ UNCHANGED <<filterVars, botVars>>

\* The error send_message of the except clause returns.
ErrorSent(d) ==
    /\ deliv[d].pc = "report_error"
    /\ SetD(d, [deliv[d] EXCEPT !.pc = "done", !.result = "error",
                                !.calls = @ \cup {"send_message_error"}])
    /\ UNCHANGED tmpdirs
    /\ UNCHANGED <<filterVars, botVars>>

\* The error send_message raises, and the exception leaves the function.
ErrorRaised(d) ==
    /\ deliv[d].pc = "report_error"
    /\ SetD(d, [deliv[d] EXCEPT !.pc = "done", !.result = "raised",
                                !.calls = @ \cup {"send_message_error"}])
    /\ UNCHANGED tmpdirs
    /\ UNCHANGED <<filterVars, botVars>>

NextDelivery ==
    \/ DeliveryStart
    \/ \E d \in Deliveries : ChatActionSent(d)
    \/ \E d \in Deliveries : ChatActionRaised(d)
    \/ \E d \in Deliveries : DownloadReturned(d)
    \/ \E d \in Deliveries : DownloadRaised(d)
    \/ \E d \in Deliveries : TooLargeSent(d)
    \/ \E d \in Deliveries : VideoSent(d)
    \/ \E d \in Deliveries : SendRaised(d)
    \/ \E d \in Deliveries : ErrorSent(d)
    \/ \E d \in Deliveries : ErrorRaised(d)

SpecDelivery == Init /\ [][NextDelivery]_vars

----------------------------------------------------------------------------
(* The session store and the handlers *)

\* The PendingChoice objects made so far: each is known by the task that put it.
Stored == { p \in Tasks : task[p].reply = "prompt" }

\* The taps that removed PendingChoice e from the store, by select or cancel
Takers(e) == { t \in Tasks : task[t].took = e }

\* The select taps that called send_downloaded_video from PendingChoice e
DeliveriesFrom(e) ==
    { t \in Takers(e) : task[t].pc = "deliver" \/ task[t].reply \in DeliveryResults }

\* C1: a stored PendingChoice is resolved at most once: at most one tap takes
\* it, so at most one delivery is started from it, and once it is taken no
\* key of the store holds it, so a second tap for it finds it absent.
C1_ResolvedAtMostOnce ==
    \A e \in Stored :
        /\ Cardinality(Takers(e)) <= 1
        /\ Cardinality(DeliveriesFrom(e)) <= 1
        /\ Takers(e) # {} => \A k \in DOMAIN PENDING : PENDING[k].oid # e

\* A tap has started a delivery from the PendingChoice of its prompt while a
\* duplicate of that tap (same user, same button of the same prompt) has
\* arrived and awaits q.answer(): the store has nothing left for it.
C1_Witness ==
    \E t1, t2 \in Tasks :
        /\ t1 # t2
        /\ task[t1].pc = "deliver" /\ task[t1].took = task[t1].msg
        /\ task[t2].pc = "answer"
        /\ task[t2].key = task[t1].key
        /\ task[t2].msg = task[t1].msg
        /\ task[t2].data = task[t1].data
        /\ task[t2].key \notin DOMAIN PENDING

\* The format the tapped button of a callback task showed: the data is
\* <<"YT", <<"f", idx>>>> and the button sits on prompt msg.
TappedFormat(t) == task[task[t].msg].fmts[task[t].data[2][2] + 1]

\* C2: a select tap that starts a delivery delivers the format_id and the URL
\* of the candidate whose label the tapped button showed.
C2_TokenRoundTrip ==
    \A t \in Tasks :
        task[t].kind = "callback" /\ task[t].pc = "deliver" =>
            /\ task[t].format_id = TappedFormat(t).format_id
            /\ task[t].url = task[task[t].msg].url

\* The step that handles a cancel tap when the store has nothing for its key,
\* a select tap having consumed that key's PendingChoice before
CancelAfterConsumed(t) ==
    /\ task[t].kind = "callback"
    /\ task[t].pc = "answer"
    /\ task[t].data = <<"CANCEL">>
    /\ task[t].key \notin DOMAIN PENDING
    /\ \E e \in Stored : task[e].key = task[t].key /\ DeliveriesFrom(e) # {}
    /\ task'[t] # task[t]

C9_SelectWithoutSession ==
    [][ \A t \in Tasks :
            ( /\ task[t].kind = "callback"
              /\ task[t].pc = "answer"
              /\ task[t].data[1] = "YT"
              /\ task[t].key \notin DOMAIN PENDING
              /\ task'[t] # task[t] ) =>
            /\ task'[t].pc = "done"
            /\ task'[t].reply = "session_not_found"
            /\ task'[t].took = 0
            /\ PENDING' = PENDING ]_vars

\* A user's PendingChoice was taken by that user's first tap, and a later
\* select tap of that user was told that the session was not found.
C9_Witness ==
    /\ Stored = {1}
    /\ \E s \in Takers(1) : task[s].key = task[1].key
    /\ \E t \in Tasks :
         /\ task[t].kind = "callback"
         /\ task[t].reply = "session_not_found"
         /\ task[t].key = task[1].key
    /\ PENDING = EmptyDict

\* C10: the store maps a key to one PendingChoice, and the put of handle_link
\* overwrites: right after it the key holds the PendingChoice just made, of
\* this handler's URL and formats, whatever the key held before, and the
\* other keys hold what they held.
C10_LastWriteWins ==
    [][ \A t \in Tasks :
            (task[t].pc = "extract" /\ task'[t].reply = "prompt") =>
            /\ task[t].key \in DOMAIN PENDING'
            /\ PENDING'[task[t].key] =
                 PendingChoice(task[t].url, FmtMap(task'[t].fmts), t)
            /\ \A k \in Keys \ {task[t].key} :
                 /\ k \in DOMAIN PENDING' <=> k \in DOMAIN PENDING
                 /\ k \in DOMAIN PENDING => PENDING'[k] = PENDING[k] ]_vars

\* A user was shown two prompts, for two URLs; nobody took the first
\* PendingChoice, and the store holds the second.
C10_Witness ==
    \E p1, p2 \in Stored :
        /\ p1 < p2
        /\ task[p1].key = task[p2].key
        /\ task[p1].url # task[p2].url
        /\ Takers(p1) = {}
        /\ task[p2].key \in DOMAIN PENDING
        /\ PENDING[task[p2].key].oid = p2
        /\ PENDING[task[p2].key].url = task[p2].url

----------------------------------------------------------------------------
(* The delivery pipeline *)

\* C3: a delivery whose downloaded file is over the ceiling has sent the "too
\* large" text and never calls send_video; send_video is called only for a
\* file within the ceiling.
C3_NoUploadOverCeiling ==
    \A d \in Deliveries :
        /\ (deliv[d].size # None /\ deliv[d].size > MAX_BYTES) =>
              /\ "send_message_too_large" \in deliv[d].calls
              /\ "send_video" \notin deliv[d].calls
        /\ "send_video" \in deliv[d].calls =>
              deliv[d].size # None /\ deliv[d].size <= MAX_BYTES

\* One delivery ended "too large" on a file one over the ceiling, another sent
\* a file of exactly the ceiling.
C3_Witness ==
    \E d1, d2 \in Deliveries :
        /\ deliv[d1].result = "too_large" /\ deliv[d1].size = MAX_BYTES + 1
        /\ deliv[d2].result = "video" /\ deliv[d2].size = MAX_BYTES

----------------------------------------------------------------------------
(* What the ranking claims speak of, stated without the ranker's helpers *)

\* The size a format is known by: filesize, else filesize_approx, else unknown.
SizeOf(f) == IF f.filesize # None THEN f.filesize ELSE f.filesize_approx

\* The resolution class: the height, 0 if unknown.
ResOf(f) == IF f.height = None THEN 0 ELSE f.height

\* mp4, both tracks, and a known size within the ceiling or no known size
Surfaceable(f) ==
    /\ f.ext = "mp4"
    /\ f.vcodec # "none"
    /\ f.acodec # "none"
    /\ (SizeOf(f) = None \/ SizeOf(f) <= MAX_BYTES)

\* a's size is at most b's, an unknown size counting as +infinity
SizeAtMost(a, b) ==
    \/ SizeOf(b) = None
    \/ (SizeOf(a) # None /\ SizeOf(a) <= SizeOf(b))

Survivors == { formats[i] : i \in { j \in 1..Len(formats) : Surfaceable(formats[j]) } }

Range(s) == { s[i] : i \in 1..Len(s) }

\* C4: every format of the manual-mode list, and the format automatic mode
\* returns, is an mp4 with a video and an audio track whose known size is
\* within the ceiling or whose size is unknown.
C4_SurfacedAreEligible ==
    /\ phase = "manual" => \A f \in Range(manualList) : f \in Range(formats) /\ Surfaceable(f)
    /\ phase = "auto" /\ autoPick # NoFormat => autoPick \in Range(formats) /\ Surfaceable(autoPick)

\* Automatic mode returned a format although a higher format of the list has a
\* known size over the ceiling, and another lacks a track.
C4_Witness ==
    /\ phase = "auto"
    /\ autoPick # NoFormat
    /\ \E f \in Range(formats) :
         /\ SizeOf(f) # None /\ SizeOf(f) > MAX_BYTES
         /\ ResOf(f) > ResOf(autoPick)
    /\ \E f \in Range(formats) : f.acodec = "none"

\* C5: automatic mode returns a survivor of the filter of the highest
\* resolution class and, among those of that class, of the smallest size, an
\* unknown size counting as +infinity; it returns nothing only when no format
\* survives the filter.
C5_AutoPicksBest ==
    phase = "auto" =>
        IF Survivors = {} THEN autoPick = NoFormat
        ELSE /\ autoPick \in Survivors
             /\ \A g \in Survivors :
                  /\ ResOf(g) <= ResOf(autoPick)
                  /\ ResOf(g) = ResOf(autoPick) => SizeAtMost(autoPick, g)

\* Automatic mode chose between two survivors of the top class, one of a known
\* size (0 included) and one of unknown size, a lower survivor being present.
C5_Witness ==
    /\ phase = "auto"
    /\ autoPick # NoFormat
    /\ SizeOf(autoPick) = 0
    /\ \E g \in Survivors : ResOf(g) = ResOf(autoPick) /\ SizeOf(g) = None
    /\ \E g \in Survivors : ResOf(g) < ResOf(autoPick)

\* C6: in manual mode the entry kept for a resolution class is a survivor of
\* that class of the smallest size, an unknown size counting as +infinity.
C6_ManualKeepsSmallest ==
    phase = "manual" =>
        \A f \in Range(manualList) :
            \A g \in Survivors : ResOf(g) = ResOf(f) => SizeAtMost(f, g)

\* C7: the manual-mode list is strictly ascending in resolution class and
\* holds no entry of resolution class 0.
C7_ManualStrictlyAscending ==
    phase = "manual" =>
        /\ \A i \in 1..Len(manualList) : ResOf(manualList[i]) > 0
        /\ \A i, j \in 1..Len(manualList) :
             i < j => ResOf(manualList[i]) < ResOf(manualList[j])

\* A list of two entries was kept from three survivors, two of them of one
\* class, or from survivors one of which has no known resolution.
C7_Witness ==
    /\ phase = "manual"
    /\ Len(manualList) = 2
    /\ Cardinality(Survivors) = 3
    /\ \/ \E f, g \in Survivors : f # g /\ ResOf(f) = ResOf(g) /\ ResOf(f) > 0
       \/ \E f \in Survivors : ResOf(f) = 0

----------------------------------------------------------------------------
(* handle_link: the paths that present nothing *)

\* The URL names YouTube (manual selection) / TikTok or Instagram (automatic)
ManualUrl(url) == "youtube.com" \in url.sigs \/ "youtu.be" \in url.sigs

AutoUrl(url) ==
    ~ManualUrl(url) /\ ("tiktok.com" \in url.sigs \/ "instagram.com" \in url.sigs)

\* The filter keeps nothing of what the extractor reports for the URL, in the
\* mode of the URL's platform
EmptyFilterResult(url) ==
    \/ ManualUrl(url) /\ build_youtube_choice_list(Catalogue(url.vid)) = <<>>
    \/ AutoUrl(url) /\ choose_best_under_limit_non_reencode(Catalogue(url.vid)) = NoFormat

\* C11: handle_link leaves the store as it is and starts no delivery when the
\* message has no URL or a URL of unknown platform (the handler returns at
\* once), when the extraction fails, and when the filter keeps nothing (the
\* handler returns after the "no format" reply, in either mode); on a TikTok
\* or Instagram URL it never touches the store, delivery or not.
C11_NonPresentingPathsFrame ==
    [][ /\ Len(task') > Len(task) /\ task'[Len(task')].kind = "link" =>
             LET n == task'[Len(task')] IN
               /\ PENDING' = PENDING
               /\ n.pc \in {"done", "extract"}
               /\ n.pc = "done" => n.reply \in {"", "unknown_link"}
               /\ n.pc = "extract" => ManualUrl(n.url) \/ AutoUrl(n.url)
        /\ \A t \in Tasks :
             (task[t].kind = "link" /\ task[t].pc = "extract" /\ task'[t] # task[t]) =>
               /\ task'[t].reply = "extract_error" =>
                    PENDING' = PENDING /\ task'[t].pc = "done"
               /\ EmptyFilterResult(task[t].url) =>
                    /\ PENDING' = PENDING
                    /\ task'[t].pc = "done"
                    /\ task'[t].reply \in {"no_format", "extract_error"}
               /\ AutoUrl(task[t].url) => PENDING' = PENDING
               /\ PENDING' # PENDING => task'[t].reply = "prompt"
        /\ \A t \in Tasks :
             (task[t].kind = "link" /\ task[t].pc = "deliver" /\ task'[t] # task[t]) =>
               PENDING' = PENDING ]_vars

\* A user's PendingChoice is in the store, untouched, while a link handler
\* has ended with the "no format" reply and another, on the automatic path,
\* has called send_downloaded_video.
C11_Witness ==
    /\ Len(task) = 3
    /\ Stored = {1}
    /\ PENDING = StorePut(EmptyDict, task[1].key,
                          PendingChoice(task[1].url, FmtMap(task[1].fmts), 1))
    /\ task[2].kind = "link" /\ task[2].reply = "no_format"
    /\ task[3].kind = "link" /\ task[3].pc = "deliver"

----------------------------------------------------------------------------
(* The dispatch of updates *)

\* The dispatcher hands an update of a (chat, user) other than key to its
\* handler.
DispatchOfOther(key) ==
    /\ NextSequential
    /\ Len(task') > Len(task)
    /\ task'[Len(task')].key # key

\* C12: while a handler awaits the metadata extraction or the download of one
\* (chat, user), the dispatch of an update of another (chat, user) is not
\* blocked: the dispatcher can hand it to its handler at once.
C12_UnrelatedDispatchNotBlocked ==
    \A t \in Tasks :
        ( /\ Len(task) < MaxTasks
          /\ \/ task[t].kind = "link" /\ task[t].pc = "extract"
             \/ task[t].kind = "callback" /\ task[t].pc = "deliver" ) =>
        ENABLED DispatchOfOther(task[t].key)

----------------------------------------------------------------------------
(* How a handler ends *)

\* What a user sees at the end of a handled update: the choice prompt, the
\* video, or a terminal text.
VisibleOutcomes ==
    { "prompt", "video", "unknown_link", "extract_error", "no_format", "too_large",
      "error", "cancelled", "session_not_found", "format_not_found" }

\* C13: a handler that has returned, of a message with a URL or of a tap, has
\* ended in an outcome the user sees (prompt, video or terminal text): no
\* failure has left the handler as an exception.
C13_EndsInVisibleOutcome ==
    \A t \in Tasks :
        (task[t].pc = "done" /\ task[t].reply # "") => task[t].reply \in VisibleOutcomes

----------------------------------------------------------------------------
(* The temporary directories *)

\* The deliveries inside their `with tempfile.TemporaryDirectory()` block
InWithBlock == { d \in Deliveries : deliv[d].pc \in {"download", "report_too_large", "upload"} }

\* C14: the temporary directories on disk are those of the deliveries inside
\* their `with` block, one each and no two the same; a delivery that has left
\* the block (video sent, too large, download or upload failed, file missing)
\* holds none, so when every delivery has ended none is left.
C14_TempDirReleasedNeverShared ==
    /\ tmpdirs = { deliv[d].td : d \in InWithBlock }
    /\ \A d \in Deliveries : deliv[d].td # 0 <=> d \in InWithBlock
    /\ \A d1, d2 \in InWithBlock : d1 # d2 => deliv[d1].td # deliv[d2].td
    /\ (\A d \in Deliveries : deliv[d].pc = "done") => tmpdirs = {}

\* A delivery has ended on a failed upload, after its download, and its
\* directory is gone, while another delivery is downloading into its own.
C14_Witness ==
    \E d1, d2 \in Deliveries :
        /\ deliv[d1].pc = "done"
        /\ deliv[d1].result = "error"
        /\ "send_video" \in deliv[d1].calls
        /\ deliv[d2].pc = "download"
        /\ tmpdirs = {deliv[d2].td}

----------------------------------------------------------------------------
(* The order of the take and the delivery *)

\* C15: the step of a select tap that calls send_downloaded_video found the
\* tapped token in the PendingChoice stored for its key, and has removed that
\* PendingChoice: when the delivery starts the key has no entry and no key
\* holds the PendingChoice the delivery was started from.
C15_TakenBeforeDelivery ==
    [][ \A t \in Tasks :
            ( /\ task[t].kind = "callback"
              /\ task[t].pc = "answer"
              /\ task'[t].pc = "deliver" ) =>
            /\ task[t].key \in DOMAIN PENDING
            /\ task[t].data[2] \in DOMAIN PENDING[task[t].key].formats
            /\ task'[t].took = PENDING[task[t].key].oid
            /\ task[t].key \notin DOMAIN PENDING'
            /\ \A k \in DOMAIN PENDING' : PENDING'[k].oid # task'[t].took ]_vars

\* Two users hold a PendingChoice each; one has tapped a format of their own
\* prompt and the delivery has started: the store holds the other user's
\* PendingChoice only.
C15_Witness ==
    \E t \in Tasks :
        /\ task[t].kind = "callback"
        /\ task[t].pc = "deliver"
        /\ task[t].took = task[t].msg
        /\ task[t].key \notin DOMAIN PENDING
        /\ \E k \in DOMAIN PENDING : k # task[t].key /\ PENDING[k].oid # task[t].took

----------------------------------------------------------------------------
(* The prompt and its tokens *)

\* The resolution classes the manual list has an entry for
ShownClasses == { ResOf(f) : f \in { g \in Survivors : ResOf(g) > 0 } }

\* The number of options a prompt of those classes shows
ShownCount == IF Cardinality(ShownClasses) < 12 THEN Cardinality(ShownClasses) ELSE 12

\* C16: every stored PendingChoice maps at least one and at most 12 tokens,
\* as many as its prompt shows format buttons, the i-th token to the i-th
\* button's format; the buttons are the lowest resolution classes of the
\* video in ascending order, 12 of them when the video has more, and the
\* prompt has one cancel button besides.
C16_PromptWithinTwelve ==
    \A k \in DOMAIN PENDING :
        LET m == PENDING[k].formats
            p == PENDING[k].oid
            shown == task[p].fmts
        IN /\ DOMAIN m # {}
           /\ Cardinality(DOMAIN m) <= 12
           /\ Cardinality(DOMAIN m) = Len(shown)
           /\ Len(shown) = ShownCount
           /\ \A i \in 1..Len(shown) :
                /\ _make_token(i - 1) \in DOMAIN m
                /\ m[_make_token(i - 1)] = shown[i]
                /\ Cardinality({ c \in ShownClasses : c < ResOf(shown[i]) }) = i - 1
           /\ Cardinality(ButtonData(p)) = Len(shown) + 1
           /\ <<"CANCEL">> \in ButtonData(p)

\* A video of more than 12 resolutions was presented: the stored PendingChoice
\* has 12 tokens, and the classes above the twelfth are not shown.
C16_Witness ==
    /\ Cardinality(ShownClasses) > 12
    /\ \E k \in DOMAIN PENDING :
         /\ Cardinality(DOMAIN PENDING[k].formats) = 12
         /\ Len(task[PENDING[k].oid].fmts) = 12

----------------------------------------------------------------------------
(* Key isolation *)

\* What the store holds for a key: the PendingChoice, if any
Held(store, k) == IF k \in DOMAIN store THEN {store[k]} ELSE {}

\* C17: in every step, what the store holds for a key changes only by the put
\* of a handle_link of that key's (chat, user) or by the take of a tap of
\* that key's (chat, user); no step of an update of another (chat, user), and
\* no other step, creates, changes or removes it.
C17_KeyIsolation ==
    [][ \A k \in Keys :
            Held(PENDING', k) # Held(PENDING, k) =>
            \E t \in Tasks :
                /\ task[t].key = k
                /\ task'[t] # task[t]
                /\ \A u \in Tasks \ {t} : task'[u] = task[u]
                /\ \/ /\ task[t].kind = "link" /\ task[t].pc = "extract"
                      /\ task'[t].reply = "prompt"
                      /\ Held(PENDING', k) # {} /\ PENDING'[k].oid = t
                   \/ /\ task[t].kind = "callback" /\ task[t].pc = "answer"
                      /\ Held(PENDING', k) = {}
                      /\ task'[t].took = PENDING[k].oid ]_vars

\* Another member of the chat has tapped the cancel button of a user's
\* prompt, the only one so far: the tap found nothing under the tapper's key,
\* and the store still holds the user's PendingChoice.
C17_Witness ==
    \E p \in Stored, c \in Tasks :
        /\ Stored = {p}
        /\ task[c].kind = "callback"
        /\ task[c].key # task[p].key
        /\ task[c].reply = "cancelled"
        /\ task[c].took = 0
        /\ DOMAIN PENDING = {task[p].key}
        /\ PENDING[task[p].key].oid = p

----------------------------------------------------------------------------
(* A tap whose token the stored PendingChoice does not have *)

\* C18: a select tap handled when the store holds a PendingChoice for its key
\* whose mapping lacks the tapped token is answered "format not found",
\* starts no delivery, takes nothing, and leaves the store as it is: the
\* PendingChoice stays under its key for a later tap.
C18_UnknownTokenKeepsSession ==
    [][ \A t \in Tasks :
            ( /\ task[t].kind = "callback"
              /\ task[t].pc = "answer"
              /\ task[t].data[1] = "YT"
              /\ task[t].key \in DOMAIN PENDING
              /\ task[t].data[2] \notin DOMAIN PENDING[task[t].key].formats
              /\ task'[t] # task[t] ) =>
            /\ task'[t].pc = "done"
            /\ task'[t].reply = "format_not_found"
            /\ task'[t].took = 0
            /\ PENDING' = PENDING ]_vars

\* A user was shown a prompt of two formats and then a prompt of one, and has
\* tapped the second button of the first prompt: the tap was answered "format
\* not found", and the store holds the PendingChoice of the second prompt, its
\* one token in place.
C18_Witness ==
    /\ Stored = {1, 2}
    /\ Len(task[1].fmts) = 2
    /\ Len(task[2].fmts) = 1
    /\ task[1].key = task[2].key
    /\ Len(task) = 3
    /\ task[3].kind = "callback"
    /\ task[3].key = task[2].key
    /\ task[3].reply = "format_not_found"
    /\ PENDING = StorePut(EmptyDict, task[2].key,
                          PendingChoice(task[2].url, FmtMap(task[2].fmts), 2))

----------------------------------------------------------------------------
(* After the take *)

\* The select taps whose delivery has ended without the video
FailedDeliveries ==
    { s \in Tasks : /\ task[s].kind = "callback"
                    /\ task[s].took # 0
                    /\ task[s].reply \in {"too_large", "error", "raised"} }

\* C19: the end of a delivery, whatever its result, puts nothing back: the
\* store is as it was; and a select tap of a user whose delivery has failed
\* or was too large, handled while the store has nothing for that user, is
\* answered "session not found"; if the store has something for that user, it
\* is not the PendingChoice that was taken but one a later put made.
C19_ConsumedNeverRestored ==
    [][ /\ \A t \in Tasks :
             (task[t].pc = "deliver" /\ task'[t] # task[t]) =>
               /\ PENDING' = PENDING
               /\ \A k \in DOMAIN PENDING' : PENDING'[k].oid # task[t].took
        /\ \A s \in FailedDeliveries :
             /\ \A k \in DOMAIN PENDING : PENDING[k].oid # task[s].took
             /\ \A t \in Tasks :
                  ( /\ task[t].kind = "callback"
                    /\ task[t].pc = "answer"
                    /\ task[t].data[1] = "YT"
                    /\ task[t].key = task[s].key
                    /\ task[t].key \notin DOMAIN PENDING
                    /\ task'[t] # task[t] ) =>
                  /\ task'[t].reply = "session_not_found"
                  /\ task'[t].pc = "done"
                  /\ PENDING' = PENDING ]_vars

\* A user's tap took the PendingChoice of the only prompt and its delivery
\* failed or was too large; the user's next tap was answered "session not
\* found", and the store is empty.
C19_Witness ==
    /\ Len(task) = 3
    /\ Stored = {1}
    /\ \E s, t \in {2, 3} :
         /\ s \in FailedDeliveries
         /\ task[s].took = 1
         /\ task[t].kind = "callback"
         /\ task[t].key = task[s].key
         /\ task[t].reply = "session_not_found"
    /\ PENDING = EmptyDict

----------------------------------------------------------------------------
(* Cancel *)

\* C20: the step that handles a cancel tap takes whatever the store holds for
\* the tapper's key, be it the PendingChoice of the tapped prompt or of
\* another: right after it the key has no entry, the other keys hold what
\* they held, and the handler has returned with the "cancelled" reply without
\* a call of send_downloaded_video.
C20_CancelRemovesWhateverStored ==
    [][ \A t \in Tasks :
            ( /\ task[t].kind = "callback"
              /\ task[t].pc = "answer"
              /\ task[t].data = <<"CANCEL">>
              /\ task'[t] # task[t] ) =>
            /\ task[t].key \notin DOMAIN PENDING'
            /\ DOMAIN PENDING' = DOMAIN PENDING \ {task[t].key}
            /\ \A k \in DOMAIN PENDING' : PENDING'[k] = PENDING[k]
            /\ task'[t].took = StoredOid(PENDING, task[t].key)
            /\ task'[t].pc = "done"
            /\ task'[t].reply = "cancelled"
            /\ task'[t].format_id = 0 ]_vars

\* A user was shown two prompts, the second overwriting the PendingChoice of
\* the first, and has tapped the cancel button of one of them: the tap took
\* the PendingChoice of the second prompt, and the store is empty.
C20_Witness ==
    /\ Len(task) = 3
    /\ Stored = {1, 2}
    /\ task[1].key = task[2].key
    /\ task[3].kind = "callback"
    /\ task[3].key = task[2].key
    /\ task[3].reply = "cancelled"
    /\ task[3].took = 2
    /\ task[3].pc = "done"
    /\ PENDING = EmptyDict

====
